---- MODULE Spec2Model ----
(***************************************************************************)
(* Model of simulationGcode (src/main.cpp): the G-code interpreter Arbitr, *)
(* the raster-recording motor MatrixMotor and the canvas Matrix with its   *)
(* integer line rasterizer.                                                *)
(*                                                                         *)
(* Numbers.  A parameter value (a float in millimetres) is an integer      *)
(* count of hundredths of a millimetre; raster coordinates are integers.   *)
(* The canvas is a square of Size x Size samples (2200 x 2200 in the       *)
(* program), stored row-major in one buffer exactly as Matrix stores it.   *)
(***************************************************************************)
EXTENDS Integers, Sequences, FiniteSets

\* Side of the canvas: TABLE_SIZE * MATRIX_SCALER_SIZE in the program, scaled down.
Size == 6
\* Number of input lines make() reads before the input ends.
MaxLines == 3

VARIABLES
    pc,           \* position of main(): "start" on entry to Arbitr::make, "run" inside its
                  \* loop, "done" and "aborted" when make has returned 0 and -1 and main
                  \* has returned with it, "crashed", "hung"
    lineNo,       \* number of lines make() has read so far
    currentSize,  \* Arbitr::currentSize, the byte counter of the progress message
    filePos,      \* the read position of inFile: the bytes getline has consumed
    isWork,       \* MatrixMotor::isWork
    _prevX, _prevY, _prevZ, _prevE,   \* MatrixMotor stored position
    _x, _y,       \* MatrixMotor target position of the last move
    m,            \* MatrixMotor::m, the canvas: buffer index -> sample
    saveLayer_i,  \* the static counter i of MatrixMotor::saveLayer
    artifacts,    \* the layer images written so far, in order
    pre,          \* history: the line last dispatched and the state it was dispatched in
    lp,           \* a drawLine call on its own: the arguments and the canvas it is given
    lpc,          \* which of the two calls, "fwd" and "rev", have been made
    resF, resR    \* the result of the call as given, and of the call with the endpoints swapped

plotVars == <<_prevX, _prevY, _prevZ, _prevE, _x, _y, m, saveLayer_i, artifacts>>
motorVars == <<isWork, plotVars>>
lineVars == <<lp, lpc, resF, resR>>
byteVars == <<currentSize, filePos>>
vars == <<pc, lineNo, byteVars, motorVars, pre, lineVars>>

----------------------------------------------------------------------------
(* Matrix *)

Abs(a) == IF a < 0 THEN -a ELSE a

Max(a, b) == IF a > b THEN a ELSE b

\* Matrix(rows, cols): every sample 0.
Matrix(rows, cols) == [k \in 0 .. (rows * cols - 1) |-> 0]

\* Matrix::clear
clear(mat) == [k \in DOMAIN mat |-> 0]

\* The raw index x + y * cols of a sample. The program computes it in size_t
\* (modulo 2^64); for the small magnitudes here the result lies inside the
\* buffer exactly when the integer x + y * cols does.
RawIndex(x, y, cols) == x + (y * cols)

InBuffer(mat, k) == k \in DOMAIN mat

\* LoopBody with the error test f >= 0 in place of f > 0.
LoopBodyGE(c, s) ==
    IF c.sign = -1
    THEN LET f1 == s.f + (c.A * c.signa)
             up == f1 >= 0
         IN [f |-> IF up THEN f1 - (c.B * c.signb) ELSE f1,
             y |-> IF up THEN s.y + c.signa ELSE s.y,
             x |-> s.x - c.signb]
    ELSE LET f1 == s.f + (c.B * c.signb)
             up == f1 >= 0
         IN [f |-> IF up THEN f1 - (c.A * c.signa) ELSE f1,
             x |-> IF up THEN s.x - c.signb ELSE s.x,
             y |-> s.y + c.signa]

\* One pass of the body of the do-while loops of drawLine; c holds the values
\* fixed before the loop, s the loop variables x, y, f.
LoopBody(c, s) ==
    IF c.sign = -1
    THEN LET f1 == s.f + (c.A * c.signa)
             up == f1 > 0
         IN [f |-> IF up THEN f1 - (c.B * c.signb) ELSE f1,
             y |-> IF up THEN s.y + c.signa ELSE s.y,
             x |-> s.x - c.signb]
    ELSE LET f1 == s.f + (c.B * c.signb)
             up == f1 > 0
         IN [f |-> IF up THEN f1 - (c.A * c.signa) ELSE f1,
             x |-> IF up THEN s.x - c.signb ELSE s.x,
             y |-> s.y + c.signa]

\* Loop with the condition x != x1 && y != y1 in place of x != x1 || y != y1.
RECURSIVE LoopStopsEarly(_, _, _, _)
LoopStopsEarly(c, s, fuel, acc) ==
    LET s2 == LoopBody(c, s)
        acc2 == Append(acc, <<s2.x, s2.y>>)
    IN IF ~ (s2.x # c.x1 /\ s2.y # c.y1) THEN [pts |-> acc2, ends |-> TRUE]
       ELSE IF fuel = 0 THEN [pts |-> acc2, ends |-> FALSE]
       ELSE LoopStopsEarly(c, s2, fuel - 1, acc2)

\* The do-while loop: the points written, in order, and whether the loop
\* condition became false within fuel passes.
RECURSIVE Loop(_, _, _, _)
Loop(c, s, fuel, acc) ==
    LET s2 == LoopBody(c, s)
        acc2 == Append(acc, <<s2.x, s2.y>>)
    IN IF ~ (s2.x # c.x1 \/ s2.y # c.y1) THEN [pts |-> acc2, ends |-> TRUE]
       ELSE IF fuel = 0 THEN [pts |-> acc2, ends |-> FALSE]
       ELSE Loop(c, s2, fuel - 1, acc2)

\* Passes after which the model stops following a loop that has not ended.
LoopFuel == (4 * Size) + 8

\* The values drawLine fixes before its loop: A, B, sign, signa, signb.
LineSetup(x0, y0, x1, y1) ==
    LET A == y1 - y0
        B == x0 - x1
    IN [A |-> A, B |-> B,
        sign |-> IF Abs(A) > Abs(B) THEN 1 ELSE -1,
        signa |-> IF A < 0 THEN -1 ELSE 1,
        signb |-> IF B < 0 THEN -1 ELSE 1,
        x1 |-> x1, y1 |-> y1]

\* The points drawLine writes, in order: (x0, y0), then one per pass of its loop.
LinePoints(x0, y0, x1, y1) ==
    Loop(LineSetup(x0, y0, x1, y1), [x |-> x0, y |-> y0, f |-> 0], LoopFuel, <<(<<x0, y0>>)>>)

\* matrix[x + y * cols] = color for the first n points of pts, skipping the
\* points whose index lies outside the buffer.
RECURSIVE Paint(_, _, _, _, _)
Paint(mat, cols, pts, n, color) ==
    IF n = 0 THEN mat
    ELSE LET prev == Paint(mat, cols, pts, n - 1, color)
             k == RawIndex(pts[n][1], pts[n][2], cols)
         IN IF InBuffer(mat, k) THEN [prev EXCEPT ![k] = color] ELSE prev

\* Number of leading points of pts whose index lies inside the buffer.
RECURSIVE InsidePrefix(_, _, _, _)
InsidePrefix(mat, cols, pts, n) ==
    IF n > Len(pts) THEN Len(pts)
    ELSE IF InBuffer(mat, RawIndex(pts[n][1], pts[n][2], cols)) THEN InsidePrefix(mat, cols, pts, n + 1)
    ELSE n - 1

\* Matrix::drawLine: the set of results the call can have. With every write
\* inside the buffer there is one result. A write outside the buffer is
\* undefined behaviour: the process dies at it, or the write lands outside
\* the canvas and the call goes on. A loop that does not end walks out of
\* the buffer without bound.
drawLine(mat, cols, x0, y0, x1, y1, color) ==
    LET ln == LinePoints(x0, y0, x1, y1)
        inside == InsidePrefix(mat, cols, ln.pts, 1)
    IN IF ln.ends /\ inside = Len(ln.pts)
       THEN {[status |-> "ok", pts |-> ln.pts, mat |-> Paint(mat, cols, ln.pts, Len(ln.pts), color)]}
       ELSE {[status |-> "crash", pts |-> SubSeq(ln.pts, 1, inside),
              mat |-> Paint(mat, cols, ln.pts, inside, color)]}
            \cup {[status |-> IF ln.ends THEN "ok" ELSE "hang", pts |-> ln.pts,
                   mat |-> Paint(mat, cols, ln.pts, Len(ln.pts), color)]}

----------------------------------------------------------------------------
(* Axes and MatrixMotor *)

\* Axes(): every field 0.
Axes == [_x |-> 0, _y |-> 0, _z |-> 0, _e |-> 0, _f |-> 0]

\* std::round(v * 10) for a value v in hundredths: the nearest integer of
\* v / 10, halves away from zero.
Round10(v) == IF v >= 0 THEN (v + 5) \div 10 ELSE -(((-v) + 5) \div 10)

\* The state of the MatrixMotor object as a record.
Motor ==
    [isWork |-> isWork, _prevX |-> _prevX, _prevY |-> _prevY, _prevZ |-> _prevZ,
     _prevE |-> _prevE, _x |-> _x, _y |-> _y, m |-> m, i |-> saveLayer_i,
     artifacts |-> artifacts, status |-> "ok"]

\* saveLayer without the increment of i.
saveLayerSameIndex(st, layer) ==
    [st EXCEPT !.artifacts = Append(st.artifacts,
                                    [index |-> st.i, strL |-> Round10(layer), image |-> st.m]),
               !.m = clear(st.m)]

\* MatrixMotor::saveLayer: the canvas is written as img/layer_<i>_<strL>.jpg,
\* i is incremented and the canvas cleared. strL is the text of
\* round(layer * 10) / 10 cut after its first decimal, kept here as the
\* number of tenths it spells (the float carries a tenth exactly enough for
\* that below 8 mm, where the heights of the input lie).
saveLayer(st, layer) ==
    [st EXCEPT !.artifacts = Append(st.artifacts,
                                    [index |-> st.i, strL |-> Round10(layer), image |-> st.m]),
               !.i = st.i + 1,
               !.m = clear(st.m)]

\* MatrixMotor::setting. The four assignments run in order, so the last
\* three read the _prevX the first has just stored.
setting(st, ax) ==
    LET px == IF ax._x # 0 THEN Round10(ax._x) ELSE st._prevX
    IN [st EXCEPT !._prevX = px,
                  !._prevY = IF ax._y # 0 THEN Round10(ax._y) ELSE px,
                  !._prevZ = IF ax._z # 0 THEN Round10(ax._z) ELSE px,
                  !._prevE = IF ax._e # 0 THEN Round10(ax._e) ELSE px]

\* Target with X and Y taken as offsets from the stored position.
TargetRelative(st, ax) ==
    LET s1 == [st EXCEPT !._x = st._prevX + (IF ax._x # 0 THEN Round10(ax._x) ELSE 0),
                         !._y = st._prevY + (IF ax._y # 0 THEN Round10(ax._y) ELSE 0)]
    IN IF ax._z # 0 THEN saveLayer(s1, ax._z) ELSE s1

\* Target with the layer flushed whether or not the command gives a Z.
TargetAlwaysFlushes(st, ax) ==
    LET s1 == [st EXCEPT !._x = IF ax._x # 0 THEN Round10(ax._x) ELSE st._prevX,
                         !._y = IF ax._y # 0 THEN Round10(ax._y) ELSE st._prevY]
    IN saveLayer(s1, ax._z)

\* The part moveE and move share: the target position and the layer flush.
Target(st, ax) ==
    LET s1 == [st EXCEPT !._x = IF ax._x # 0 THEN Round10(ax._x) ELSE st._prevX,
                         !._y = IF ax._y # 0 THEN Round10(ax._y) ELSE st._prevY]
    IN IF ax._z # 0 THEN saveLayer(s1, ax._z) ELSE s1

\* moveE without the return on a move that goes nowhere.
moveEAlwaysDraws(st, ax) ==
    IF ~ st.isWork THEN {st}
    ELSE LET s1 == Target(st, ax)
         IN {IF r.status = "ok" THEN setting([s1 EXCEPT !.m = r.mat], ax)
             ELSE [s1 EXCEPT !.m = r.mat, !.status = r.status]
             : r \in drawLine(s1.m, Size, s1._prevX, s1._prevY, s1._x, s1._y, 255)}

\* moveE without the return when the motors are off.
moveEIgnoresOff(st, ax) ==
    LET s1 == Target(st, ax)
    IN IF s1._prevX = s1._x /\ s1._prevY = s1._y THEN {s1}
       ELSE {IF r.status = "ok" THEN setting([s1 EXCEPT !.m = r.mat], ax)
             ELSE [s1 EXCEPT !.m = r.mat, !.status = r.status]
             : r \in drawLine(s1.m, Size, s1._prevX, s1._prevY, s1._x, s1._y, 255)}

\* MatrixMotor::moveE: the set of states the call can end in.
moveE(st, ax) ==
    IF ~ st.isWork THEN {st}
    ELSE LET s1 == Target(st, ax)
         IN IF s1._prevX = s1._x /\ s1._prevY = s1._y THEN {s1}
            ELSE {IF r.status = "ok" THEN setting([s1 EXCEPT !.m = r.mat], ax)
                  ELSE [s1 EXCEPT !.m = r.mat, !.status = r.status]
                  : r \in drawLine(s1.m, Size, s1._prevX, s1._prevY, s1._x, s1._y, 255)}

\* move without the return on a move that goes nowhere.
moveAlwaysSets(st, ax) ==
    IF ~ st.isWork THEN {st}
    ELSE {setting(Target(st, ax), ax)}

\* MatrixMotor::move
move(st, ax) ==
    IF ~ st.isWork THEN {st}
    ELSE LET s1 == Target(st, ax)
         IN IF s1._prevX = s1._x /\ s1._prevY = s1._y THEN {s1}
            ELSE {setting(s1, ax)}

\* MatrixMotor::off
off(st) == [st EXCEPT !.isWork = FALSE]

----------------------------------------------------------------------------
(* Arbitr *)

\* numeric_limits<float>::min(), the value getCmdId gives a letter without a
\* number: the smallest positive value of the model's number grid.
FltMin == 1

\* A token of a line after the mnemonic: its first character and the
\* rest, which is empty (<<>>) or spells one number (<<v>>).
Tok(c, rest) == [c |-> c, rest |-> rest]

\* Arbitr::getCmdId
getCmdId(id) ==
    [first |-> id.c, second |-> IF id.rest # <<>> THEN id.rest[1] ELSE FltMin]

\* The loop of make that fills pairs[] from commands[1..].
Pairs(toks) == [k \in 1 .. Len(toks) |-> getCmdId(toks[k])]

\* float -> uint16_t of a non-negative value in hundredths.
ToUint16(v) == (v \div 100) % 65536

\* Arbitr::getAxes over the first n pairs.
RECURSIVE getAxesUpTo(_, _)
getAxesUpTo(pairs, n) ==
    IF n = 0 THEN Axes
    ELSE LET ax == getAxesUpTo(pairs, n - 1)
             p == pairs[n]
         IN CASE p.first = "X" -> [ax EXCEPT !._x = p.second]
              [] p.first = "Y" -> [ax EXCEPT !._y = p.second]
              [] p.first = "Z" -> [ax EXCEPT !._z = p.second]
              [] p.first = "E" -> [ax EXCEPT !._e = p.second]
              [] p.first = "F" -> [ax EXCEPT !._f = ToUint16(p.second)]
              [] OTHER -> ax

getAxes(pairs, size) == getAxesUpTo(pairs, size)

\* The mnemonics callCode recognizes besides G0 and G1.
Auxiliary == {"G28", "G90", "G91", "G92", "M82", "M84", "M104", "M105", "M106",
              "M107", "M109", "M140", "M190"}
Recognized == {"G0", "G1"} \cup Auxiliary

----------------------------------------------------------------------------
(* The input *)

\* Parameter values of the input lines, in hundredths of a millimetre:
\* X reaches raster 0, 3 (2.5 rounded) and Size (one past the last column),
\* Y raster 1 (1.4 rounded), Z the heights 0 and 0.2.
XVals == {0, 25, Size * 10}
YVals == {14}
ZVals == {0, 20}
EVals == {10}

\* A letter left out, or given with one of vals.
Opt(c, vals) == {<<>>} \cup {<<Tok(c, <<v>>)>> : v \in vals}

\* Number of decimal digits of a natural number.
RECURSIVE Digits(_)
Digits(n) == IF n < 10 THEN 1 ELSE 1 + Digits(n \div 10)

\* Number of characters of the shortest decimal text of v hundredths:
\* "0" for 0, "0.2" for 20, "0.25" for 25, "200" for 20000.
NumSize(v) ==
    Digits(v \div 100) + (IF v % 100 = 0 THEN 0 ELSE IF v % 10 = 0 THEN 2 ELSE 3)

\* Number of characters of a mnemonic.
CmdSize(cmd) ==
    IF cmd \in {"G0", "G1"} THEN 2
    ELSE IF cmd \in {"G28", "G90", "G91", "G92", "M82", "M84"} THEN 3
    ELSE 4

\* Number of characters of the tokens toks[1..n], each after one blank.
RECURSIVE ToksSize(_, _)
ToksSize(toks, n) ==
    IF n = 0 THEN 0
    ELSE ToksSize(toks, n - 1) + 2
         + (IF toks[n].rest = <<>> THEN 0 ELSE NumSize(toks[n].rest[1]))

\* strReaded.size() of a line without a comment.
LineSize(cmd, toks) == CmdSize(cmd) + ToksSize(toks, Len(toks))

\* A line read by getline: size is strReaded.size(); strClear is empty (a
\* blank or all-comment line), or a mnemonic and its tokens.
Line(cmd, toks) ==
    [empty |-> FALSE, cmd |-> cmd, toks |-> toks, size |-> LineSize(cmd, toks)]
EmptyLine == [empty |-> TRUE, cmd |-> "", toks |-> <<>>, size |-> 0]
NoLine == [empty |-> TRUE, cmd |-> "none", toks |-> <<>>, size |-> 0]

\* The column the comment of a commented line ends at.
LineBytes == 24

\* The line with a comment after it that ends at column LineBytes.
Commented(l) == [l EXCEPT !.size = Max(l.size, LineBytes)]

\* Travel moves carry no E, extrusion moves carry one; each has a comment.
MotionLines ==
    {Commented(Line("G0", x \o y \o z)) :
        x \in Opt("X", XVals), y \in Opt("Y", YVals), z \in Opt("Z", ZVals)}
    \cup {Commented(Line("G1", x \o y \o z \o <<Tok("E", <<e>>)>>)) :
        x \in Opt("X", XVals), y \in Opt("Y", YVals), z \in Opt("Z", ZVals),
        e \in EVals}

AuxLines ==
    {Commented(Line(c, <<>>)) :
        c \in {"G28", "G90", "G91", "G92", "M82", "M84", "M105", "M107"}}
    \cup {Commented(Line(c, <<Tok("S", <<20000>>)>>)) :
        c \in {"M104", "M106", "M109", "M140", "M190"}}

\* A line with a mnemonic callCode does not know, without a comment.
UnknownLines == {Line("G999", <<>>)}

\* Moves that give a letter without a number, and a move to a layer height
\* with a second decimal.
BareLines ==
    {Commented(Line("G0", <<Tok("X", <<>>), Tok("Y", <<>>)>>)),
     Commented(Line("G0", <<Tok("Z", <<>>)>>))}
FineLines == {Commented(Line("G0", <<Tok("Z", <<28>>)>>))}

Lines == MotionLines \cup BareLines \cup FineLines \cup AuxLines \cup UnknownLines
         \cup {EmptyLine}

----------------------------------------------------------------------------
(* Arbitr::make, one action per line read *)

\* The pre-state a line is dispatched in.
Snapshot(l) ==
    [line |-> l, _prevX |-> _prevX, _prevY |-> _prevY, m |-> m, isWork |-> isWork,
     i |-> saveLayer_i, artifacts |-> artifacts]

\* The first pass of the loop of make, made before any getline: strReaded is
\* "", so currentSize grows by 1 and the pass ends at the continue.
FirstPass ==
    /\ pc = "start"
    /\ pc' = "run"
    /\ currentSize' = currentSize + 1
    /\ UNCHANGED <<lineNo, filePos, motorVars, pre, lineVars>>

\* getline gave line l and consumed it and its newline: the head of the
\* loop body of make.
ReadLine(l) ==
    /\ pc = "run"
    /\ lineNo < MaxLines
    /\ lineNo' = lineNo + 1
    /\ filePos' = filePos + l.size + 1
    /\ currentSize' = currentSize + (l.size + 1)
    /\ pre' = Snapshot(l)
    /\ UNCHANGED lineVars

\* The motor is left in state r by the handler.
Becomes(r) ==
    /\ isWork' = r.isWork
    /\ _prevX' = r._prevX /\ _prevY' = r._prevY /\ _prevZ' = r._prevZ /\ _prevE' = r._prevE
    /\ _x' = r._x /\ _y' = r._y
    /\ m' = r.m
    /\ saveLayer_i' = r.i
    /\ artifacts' = r.artifacts
    /\ pc' = CASE r.status = "ok" -> pc
               [] r.status = "crash" -> "crashed"
               [] OTHER -> "hung"

\* strClear.empty(): continue.
SkipLine(l) ==
    /\ l.empty
    /\ ReadLine(l)
    /\ UNCHANGED <<pc, motorVars>>

\* Arbitr::G0
G0(l) ==
    /\ ~ l.empty /\ l.cmd = "G0"
    /\ ReadLine(l)
    /\ \E r \in move(Motor, getAxes(Pairs(l.toks), Len(l.toks))) : Becomes(r)

\* Arbitr::G1
G1(l) ==
    /\ ~ l.empty /\ l.cmd = "G1"
    /\ ReadLine(l)
    /\ \E r \in moveE(Motor, getAxes(Pairs(l.toks), Len(l.toks))) : Becomes(r)

\* Arbitr::G28
G28(l) ==
    /\ ~ l.empty /\ l.cmd = "G28"
    /\ ReadLine(l)
    /\ \E r \in move(Motor, Axes) : Becomes(r)

\* Arbitr::G92
G92(l) ==
    /\ ~ l.empty /\ l.cmd = "G92"
    /\ ReadLine(l)
    /\ Becomes(setting(Motor, Axes))

\* Arbitr::M84
M84(l) ==
    /\ ~ l.empty /\ l.cmd = "M84"
    /\ ReadLine(l)
    /\ Becomes(off(Motor))

\* Arbitr::G90, G91, M82, M104, M105, M106, M107, M109, M140, M190: a message.
Report(l) ==
    /\ ~ l.empty /\ l.cmd \in Auxiliary \ {"G28", "G92", "M84"}
    /\ ReadLine(l)
    /\ UNCHANGED <<pc, motorVars>>

\* main returns what make returned: ~Arbitr calls motors->off().
Return ==
    /\ isWork' = off(Motor).isWork
    /\ UNCHANGED plotVars

\* callCode throws UnknownGCode; make catches it and returns -1.
Unknown(l) ==
    /\ ~ l.empty /\ l.cmd \notin Recognized
    /\ ReadLine(l)
    /\ pc' = "aborted"
    /\ Return

\* EndOfInput with the canvas saved as a last layer before make returns.
EndOfInputFlushes ==
    /\ pc = "run"
    /\ pc' = "done"
    /\ LET r == off(saveLayer(Motor, _prevZ))
       IN /\ isWork' = r.isWork
          /\ m' = r.m /\ saveLayer_i' = r.i /\ artifacts' = r.artifacts
    /\ UNCHANGED <<_prevX, _prevY, _prevZ, _prevE, _x, _y>>
    /\ UNCHANGED <<lineNo, byteVars, pre, lineVars>>

\* getline fails at the end of the input: the loop ends and make returns 0.
EndOfInput ==
    /\ pc = "run"
    /\ pc' = "done"
    /\ Return
    /\ UNCHANGED <<lineNo, byteVars, pre, lineVars>>

NoCall == [x0 |-> 0, y0 |-> 0, x1 |-> 0, y1 |-> 0, color |-> 0, mat |-> <<>>]
NoResult == [status |-> "none", pts |-> <<>>, mat |-> <<>>]

\* The history before any line is read.
NoSnapshot ==
    [line |-> NoLine, _prevX |-> 0, _prevY |-> 0, m |-> Matrix(Size, Size),
     isWork |-> TRUE, i |-> 0, artifacts |-> <<>>]

Init ==
    /\ pc = "start"
    /\ lineNo = 0
    /\ currentSize = 0
    /\ filePos = 0
    /\ isWork = TRUE
    /\ _prevX = 0 /\ _prevY = 0 /\ _prevZ = 0 /\ _prevE = 0
    /\ _x = 0 /\ _y = 0
    /\ m = Matrix(Size, Size)
    /\ saveLayer_i = 0
    /\ artifacts = <<>>
    /\ pre = NoSnapshot
    /\ lp = NoCall
    /\ lpc = {}
    /\ resF = NoResult /\ resR = NoResult

Next ==
    \/ FirstPass
    \/ \E l \in Lines : SkipLine(l)
    \/ \E l \in Lines : G0(l)
    \/ \E l \in Lines : G1(l)
    \/ \E l \in Lines : G28(l)
    \/ \E l \in Lines : G92(l)
    \/ \E l \in Lines : M84(l)
    \/ \E l \in Lines : Report(l)
    \/ \E l \in Lines : Unknown(l)
    \/ EndOfInput

Spec == Init /\ [][Next]_vars

----------------------------------------------------------------------------
(* Matrix::drawLine on its own: calls with both endpoints on the canvas *)

\* Intensities a call is given, and the canvases it is given: a blank one
\* and one whose samples all differ from their neighbours.
Colors == {128, 255}
Canvases == {Matrix(Size, Size), [k \in 0 .. (Size * Size - 1) |-> (k * 37) % 256]}

Calls ==
    {[x0 |-> a, y0 |-> b, x1 |-> c, y1 |-> d, color |-> col, mat |-> cv] :
        a \in 0 .. (Size - 1), b \in 0 .. (Size - 1), c \in 0 .. (Size - 1),
        d \in 0 .. (Size - 1), col \in Colors, cv \in Canvases}

InitLine ==
    /\ pc = "line"
    /\ lineNo = 0
    /\ currentSize = 0
    /\ filePos = 0
    /\ isWork = TRUE
    /\ _prevX = 0 /\ _prevY = 0 /\ _prevZ = 0 /\ _prevE = 0
    /\ _x = 0 /\ _y = 0
    /\ m = Matrix(Size, Size)
    /\ saveLayer_i = 0
    /\ artifacts = <<>>
    /\ pre = NoSnapshot
    /\ lp \in {c \in Calls : c.x0 # c.x1 \/ c.y0 # c.y1}
    /\ lpc = {}
    /\ resF = NoResult /\ resR = NoResult

\* drawLine(x0, y0, x1, y1, color) on the given canvas.
DrawForward ==
    /\ pc = "line"
    /\ "fwd" \notin lpc
    /\ lpc' = lpc \cup {"fwd"}
    /\ resF' \in drawLine(lp.mat, Size, lp.x0, lp.y0, lp.x1, lp.y1, lp.color)
    /\ UNCHANGED <<pc, lineNo, byteVars, motorVars, pre, lp, resR>>

\* drawLine(x1, y1, x0, y0, color) on another copy of the given canvas.
DrawReverse ==
    /\ pc = "line"
    /\ "rev" \notin lpc
    /\ lpc' = lpc \cup {"rev"}
    /\ resR' \in drawLine(lp.mat, Size, lp.x1, lp.y1, lp.x0, lp.y0, lp.color)
    /\ UNCHANGED <<pc, lineNo, byteVars, motorVars, pre, lp, resF>>

NextLine == DrawForward \/ DrawReverse

SpecLine == InitLine /\ [][NextLine]_vars

\* The interpreter, and drawLine on its own, side by side.
SpecBoth == (Init \/ InitLine) /\ [][Next \/ NextLine]_vars

----------------------------------------------------------------------------
(* Claims about Matrix::drawLine *)

\* The buffer indices of the points of a sequence.
IndexSet(pts) == {RawIndex(pts[k][1], pts[k][2], Size) : k \in 1 .. Len(pts)}

PointSet(pts) == {pts[k] : k \in 1 .. Len(pts)}

\* The samples of a canvas that are not background.
Painted(mat) == {k \in DOMAIN mat : mat[k] # 0}

\* C1: a call with distinct endpoints on the canvas writes exactly
\* max(|x1-x0|, |y1-y0|) + 1 samples: it starts at (x0, y0), ends at (x1, y1),
\* writes one sample per coordinate of the major axis, moves by at most 1 on
\* each axis between consecutive samples, gives every written sample the
\* intensity and leaves every other sample as it was; (0,0)-(5,0) writes the
\* 6 samples (0,0)..(5,0) and (0,0)-(4,4) the 5 samples of the diagonal.
C1_DrawLineExact ==
    "fwd" \in lpc =>
        LET pts == resF.pts
            dx == Abs(lp.x1 - lp.x0)
            dy == Abs(lp.y1 - lp.y0)
            n == Max(dx, dy) + 1
            axis == IF dy > dx THEN 2 ELSE 1
            lo == IF dy > dx THEN (IF lp.y0 < lp.y1 THEN lp.y0 ELSE lp.y1)
                  ELSE (IF lp.x0 < lp.x1 THEN lp.x0 ELSE lp.x1)
        IN /\ resF.status = "ok"
           /\ Len(pts) = n
           /\ Cardinality(PointSet(pts)) = n
           /\ pts[1] = <<lp.x0, lp.y0>>
           /\ pts[n] = <<lp.x1, lp.y1>>
           /\ \A c \in lo .. (lo + n - 1) :
                 Cardinality({k \in 1 .. n : pts[k][axis] = c}) = 1
           /\ \A k \in 1 .. (n - 1) :
                 /\ Abs(pts[k + 1][1] - pts[k][1]) <= 1
                 /\ Abs(pts[k + 1][2] - pts[k][2]) <= 1
           /\ \A p \in PointSet(pts) : p[1] \in 0 .. (Size - 1) /\ p[2] \in 0 .. (Size - 1)
           /\ \A k \in DOMAIN lp.mat :
                 resF.mat[k] = IF k \in IndexSet(pts) THEN lp.color ELSE lp.mat[k]
           /\ (<<lp.x0, lp.y0, lp.x1, lp.y1>> = <<0, 0, 5, 0>>
                 => PointSet(pts) = {<<x, 0>> : x \in 0 .. 5})
           /\ (<<lp.x0, lp.y0, lp.x1, lp.y1>> = <<0, 0, 4, 4>>
                 => PointSet(pts) = {<<x, x>> : x \in 0 .. 4})

\* A steep line drawn down and to the left over a canvas that was not blank.
C1_Witness ==
    /\ "fwd" \in lpc
    /\ <<lp.x0, lp.y0, lp.x1, lp.y1>> = <<3, 5, 1, 0>>
    /\ lp.mat # Matrix(Size, Size)
    /\ resF.status = "ok"

\* C2: on blank canvases a call and the call with its endpoints swapped
\* paint the same set of samples.
C2_Symmetric ==
    (lpc = {"fwd", "rev"} /\ lp.mat = Matrix(Size, Size))
        => Painted(resF.mat) = Painted(resR.mat)

----------------------------------------------------------------------------
(* Claims about the interpreter. pre holds the line last dispatched and the
   state it was dispatched in; the other variables hold the state after it. *)

Has(l, c) == \E k \in 1 .. Len(l.toks) : l.toks[k].c = c

\* The line gives letter c with a number.
HasNum(l, c) == \E k \in 1 .. Len(l.toks) : l.toks[k].c = c /\ l.toks[k].rest # <<>>

\* The line gives letter c without a number.
HasBare(l, c) == \E k \in 1 .. Len(l.toks) : l.toks[k].c = c /\ l.toks[k].rest = <<>>

\* The number the line gives letter c.
Given(l, c) ==
    (CHOOSE t \in {l.toks[k] : k \in 1 .. Len(l.toks)} : t.c = c /\ t.rest # <<>>).rest[1]

\* The last line dispatched was a G0 or G1.
Motion == ~ pre.line.empty /\ pre.line.cmd \in {"G0", "G1"}

\* ... and the motors were enabled, so it computed a target position.
Moved == Motion /\ pre.isWork

\* The target of the move differs from the position stored before it.
ChangesPosition == Moved /\ <<_x, _y>> # <<pre._prevX, pre._prevY>>

\* Number of artifacts the last line emitted.
Flushes == Len(artifacts) - Len(pre.artifacts)

\* The line last dispatched ran to its end.
Completed == pc \in {"run", "done"}

\* C3: a G0 or G1 that changes the position and omits X (omits Y) leaves the
\* stored X (stored Y) as it was, and the stored position after the command
\* is the position the move went to.
C3_CarryOver ==
    (ChangesPosition /\ Completed) =>
        /\ (~ Has(pre.line, "X")) => _prevX = pre._prevX
        /\ (~ Has(pre.line, "Y")) => _prevY = pre._prevY
        /\ <<_prevX, _prevY>> = <<_x, _y>>

\* C4: a G0 or G1 that gives X0 (Y0) while the stored X (Y) is not 0 has
\* target coordinate 0 on that axis, and the stored position follows it.
C4_ExplicitZero ==
    (Moved /\ Completed) =>
        /\ (HasNum(pre.line, "X") /\ Given(pre.line, "X") = 0 /\ pre._prevX # 0)
              => (_x = 0 /\ _prevX = 0)
        /\ (HasNum(pre.line, "Y") /\ Given(pre.line, "Y") = 0 /\ pre._prevY # 0)
              => (_y = 0 /\ _prevY = 0)

\* C5: a dispatched G0 or G1 with a Z parameter emits exactly one artifact,
\* the canvas as it was, and one without a Z parameter emits none.
C5_FlushPerZ ==
    Motion =>
        IF Has(pre.line, "Z")
        THEN /\ Flushes = 1
             /\ pre.artifacts = SubSeq(artifacts, 1, Len(pre.artifacts))
        ELSE artifacts = pre.artifacts

\* The samples of the segment the last G1 drew.
Segment == IndexSet(LinePoints(pre._prevX, pre._prevY, _x, _y).pts)

\* C6: a G1 that changes the position and carries Z draws first and flushes
\* afterwards: the artifact it emits holds the segment and the canvas is all
\* background when the command is complete.
C6_DrawThenFlush ==
    (ChangesPosition /\ pre.line.cmd = "G1" /\ Has(pre.line, "Z") /\ Flushes = 1 /\ Completed) =>
        /\ m = Matrix(Size, Size)
        /\ \A k \in Segment \cap DOMAIN m : artifacts[Len(artifacts)].image[k] = 255

\* C7: the layer counter starts at 0 and grows by one per artifact, it never
\* goes down, and the k-th artifact carries index k - 1.
C7_LayerIndices ==
    /\ saveLayer_i = Len(artifacts)
    /\ saveLayer_i >= pre.i
    /\ saveLayer_i - pre.i = Flushes
    /\ \A k \in 1 .. Len(artifacts) : artifacts[k].index = k - 1

\* Three artifacts have been emitted.
C7_Witness == Len(artifacts) = 3 /\ saveLayer_i = 3

\* The last line dispatched has a mnemonic callCode does not recognize.
UnknownLast == ~ pre.line.empty /\ pre.line.cmd \notin Recognized /\ pre.line # NoLine

\* C8: make returns non-zero at the first line with an unknown mnemonic,
\* dispatches nothing after it and emits nothing for it; with no such line
\* it goes through the whole input and returns 0.
C8_UnknownFatal ==
    /\ UnknownLast => (pc = "aborted" /\ artifacts = pre.artifacts)
    /\ pc = "aborted" => (UnknownLast /\ ~ ENABLED Next)
    /\ (pc \notin {"start", "run"} /\ ~ UnknownLast) => pc = "done"

\* A point of the last segment lies off the canvas.
OffCanvas ==
    \E p \in PointSet(LinePoints(pre._prevX, pre._prevY, _x, _y).pts) :
        ~ (p[1] \in 0 .. (Size - 1) /\ p[2] \in 0 .. (Size - 1))

\* The canvas the last line started to draw on.
CanvasBeforeDraw == IF Flushes = 1 THEN Matrix(Size, Size) ELSE pre.m

\* C9: a G1 whose segment has a point off the canvas ends the run with an
\* error and writes no sample.
C9_OutOfBoundsIsError ==
    (ChangesPosition /\ pre.line.cmd = "G1" /\ OffCanvas) =>
        /\ pc = "aborted"
        /\ m = CanvasBeforeDraw

\* The move of the last line went nowhere: its target is the position stored
\* before it, or the motors were off and no target was computed.
ZeroLength == Motion /\ (pre.isWork => <<_x, _y>> = <<pre._prevX, pre._prevY>>)

\* C10 as stated: a zero-length G0 or G1 changes no canvas sample and leaves
\* the stored position as it was.
C10_ZeroLengthFrame ==
    ZeroLength => (m = pre.m /\ <<_prevX, _prevY>> = <<pre._prevX, pre._prevY>>)

\* C10 amended: a zero-length G0 or G1 leaves the stored position as it was
\* and paints nothing: the canvas is as before, or, when the command flushed
\* a layer, all background.
C10_ZeroLengthNoPaint ==
    ZeroLength =>
        /\ <<_prevX, _prevY>> = <<pre._prevX, pre._prevY>>
        /\ Completed
        /\ Flushes \in {0, 1}
        /\ m = (IF Flushes = 1 THEN Matrix(Size, Size) ELSE pre.m)

\* A zero-length G1 with the motors on, away from the origin, on a painted canvas.
C10_Witness ==
    /\ ZeroLength /\ pre.isWork /\ pre.line.cmd = "G1"
    /\ Has(pre.line, "X") /\ pre._prevX # 0
    /\ pre.m # Matrix(Size, Size)
    /\ Flushes = 0

----------------------------------------------------------------------------
(* Claims about travel moves and the other mnemonics *)

\* C11: a G0 sets no canvas sample to the foreground intensity, and a G0
\* dispatched with the motors on that gives X and Y, not both equal to the
\* stored position, leaves the stored position at the given X and Y, scaled
\* and rounded.
C11_TravelMove ==
    (~ pre.line.empty /\ pre.line.cmd = "G0") =>
        /\ \A k \in DOMAIN m : m[k] = 255 => pre.m[k] = 255
        /\ (/\ pre.isWork
            /\ HasNum(pre.line, "X") /\ HasNum(pre.line, "Y")
            /\ <<Round10(Given(pre.line, "X")), Round10(Given(pre.line, "Y"))>>
                   # <<pre._prevX, pre._prevY>>)
              => /\ Completed
                 /\ <<_prevX, _prevY>>
                       = <<Round10(Given(pre.line, "X")), Round10(Given(pre.line, "Y"))>>

\* C12: a line with one of the mnemonics G28, G90, G91, G92, M82, M84, M104,
\* M105, M106, M107, M109, M140, M190 leaves every canvas sample as it was
\* and emits no artifact.
C12_AuxiliaryFrame ==
    (~ pre.line.empty /\ pre.line.cmd \in Auxiliary) =>
        /\ m = pre.m
        /\ artifacts = pre.artifacts
        /\ saveLayer_i = pre.i
        /\ Completed

\* A G28 with the motors on, away from the origin, on a painted canvas.
C12_Witness ==
    /\ pre.line.cmd = "G28" /\ pre.isWork
    /\ pre._prevX # 0
    /\ Painted(pre.m) # {}
    /\ pc = "run"

----------------------------------------------------------------------------
(* Claims about the run as a whole *)

\* C13: when make aborts on an unknown mnemonic its byte counter equals the
\* number of input bytes up to and including the offending line, the sum
\* over the lines read of length plus one newline; filePos is that number,
\* and it is the total length of an input that ends with the offending line,
\* which the counter therefore never exceeds.
C13_ProgressBytes ==
    pc = "aborted" => (currentSize = filePos /\ currentSize <= filePos)

\* C14: a G0 or G1 that gives X (Y) as a letter without a number has the
\* stored X (Y) as the target of the move on that axis and leaves it stored,
\* and one that gives Z as a letter without a number flushes no layer.
C14_BareLetterAbsent ==
    Motion =>
        /\ HasBare(pre.line, "X") => (_prevX = pre._prevX /\ (pre.isWork => _x = pre._prevX))
        /\ HasBare(pre.line, "Y") => (_prevY = pre._prevY /\ (pre.isWork => _y = pre._prevY))
        /\ HasBare(pre.line, "Z") => Flushes = 0

\* C15: the height tag of the artifact a G0 or G1 with a numeric Z >= 0
\* emits is Z cut off after its first decimal, not rounded: 0.2 gives "0.2"
\* and 0.28 gives "0.2" too. Tags are counted in tenths.
C15_TagTruncated ==
    (Motion /\ HasNum(pre.line, "Z") /\ Flushes = 1) =>
        LET z == Given(pre.line, "Z")
            tag == artifacts[Len(artifacts)].strL
        IN /\ tag = z \div 10
           /\ (z = 20 => tag = 2)
           /\ (z = 28 => tag = 2)

\* C16: a G0 or G1 that gives Z and neither X nor Y leaves the stored X and
\* Y as they were.
C16_ZOnlyKeepsXY ==
    (Motion /\ Has(pre.line, "Z") /\ ~ Has(pre.line, "X") /\ ~ Has(pre.line, "Y")) =>
        /\ <<_prevX, _prevY>> = <<pre._prevX, pre._prevY>>
        /\ Completed

\* A Z-only move that flushed a layer while the stored X and Y differed.
C16_Witness ==
    /\ Motion /\ pre.isWork
    /\ Has(pre.line, "Z") /\ ~ Has(pre.line, "X") /\ ~ Has(pre.line, "Y")
    /\ Flushes = 1
    /\ pre._prevX # 0 /\ pre._prevX # pre._prevY
    /\ pc = "run"

----------------------------------------------------------------------------
(* Claims about termination and the end of the run *)

\* The loop of a call ended at (x1, y1) after max(|x1 - x0|, |y1 - y0|) passes.
EndsOnTime(ln, x0, y0, x1, y1) ==
    /\ ln.ends
    /\ Len(ln.pts) = Max(Abs(x1 - x0), Abs(y1 - y0)) + 1
    /\ ln.pts[Len(ln.pts)] = <<x1, y1>>

\* C18: rasterization always terminates. The interpreter never hangs in
\* drawLine: a G1 whose target is the stored position draws nothing, and the
\* loop of every segment a G1 draws ends at the target after
\* max(|dx|, |dy|) passes. For every pair of distinct endpoints on the
\* canvas, in either order, the loop ends at (x1, y1) after exactly
\* max(|dx|, |dy|) passes.
C18_RasterTerminates ==
    /\ pc # "hung"
    /\ (ChangesPosition /\ pre.line.cmd = "G1") =>
          EndsOnTime(LinePoints(pre._prevX, pre._prevY, _x, _y),
                     pre._prevX, pre._prevY, _x, _y)
    /\ (Moved /\ pre.line.cmd = "G1" /\ ~ ChangesPosition) =>
          \A k \in DOMAIN m : m[k] = 255 => pre.m[k] = 255
    /\ "fwd" \in lpc =>
          /\ resF.status # "hang"
          /\ EndsOnTime([pts |-> resF.pts, ends |-> resF.status = "ok"],
                        lp.x0, lp.y0, lp.x1, lp.y1)
    /\ "rev" \in lpc =>
          /\ resR.status # "hang"
          /\ EndsOnTime([pts |-> resR.pts, ends |-> resR.status = "ok"],
                        lp.x1, lp.y1, lp.x0, lp.y0)

\* A y-major segment drawn up and to the left, and back.
C18_Witness ==
    /\ lpc = {"fwd", "rev"}
    /\ <<lp.x0, lp.y0, lp.x1, lp.y1>> = <<4, 0, 2, 5>>
    /\ Len(resF.pts) = 6 /\ Len(resR.pts) = 6

\* C19: disabling the motors is permanent. An M84 leaves the motors off, and
\* a line dispatched with the motors off leaves them off, changes no canvas
\* sample and emits no artifact; a G0 or G1 among such lines, with or
\* without Z, also leaves the stored position as it was.
C19_DisablePermanent ==
    /\ (~ pre.line.empty /\ pre.line.cmd = "M84") => ~ isWork
    /\ (~ pre.isWork) =>
          /\ ~ isWork
          /\ m = pre.m
          /\ artifacts = pre.artifacts /\ saveLayer_i = pre.i
          /\ pc \in {"run", "done", "aborted"}
          /\ Motion => <<_prevX, _prevY>> = <<pre._prevX, pre._prevY>>

\* With the motors off and the canvas painted, a G1 to another position
\* that carries a layer height.
C19_Witness ==
    /\ ~ pre.isWork /\ pre.line.cmd = "G1"
    /\ HasNum(pre.line, "X") /\ Round10(Given(pre.line, "X")) # pre._prevX
    /\ HasNum(pre.line, "Z") /\ Given(pre.line, "Z") # 0
    /\ Painted(pre.m) # {}
    /\ pc = "run"

\* C20: artifacts are emitted by the flushes of G0 and G1 only. The number
\* of artifacts is the number of calls of saveLayer; a line emits at most
\* one, and only a G0 or G1 that carries Z and is dispatched with the motors
\* on emits one, the canvas as that line found it; nothing is emitted when
\* the input ends or the run aborts, so what was painted after the last
\* flush is in no artifact.
C20_ArtifactsOnlyByFlush ==
    /\ Len(artifacts) = saveLayer_i
    /\ Flushes \in {0, 1}
    /\ pre.artifacts = SubSeq(artifacts, 1, Len(pre.artifacts))
    /\ Flushes = 1 =>
          /\ Moved /\ Has(pre.line, "Z")
          /\ artifacts[Len(artifacts)].image = pre.m
    /\ (pc \in {"done", "aborted"} /\ Flushes = 0) =>
          \A k \in 1 .. Len(artifacts) : artifacts[k] \in {pre.artifacts[j] : j \in 1 .. Len(pre.artifacts)}

\* The input ended with a layer emitted and samples painted after it.
C20_Witness ==
    /\ pc = "done"
    /\ Len(artifacts) >= 1
    /\ Painted(m) # {}
    /\ \A k \in 1 .. Len(artifacts) : artifacts[k].image # m

\* C21: G28 homes the cursor. After a G28 dispatched with the motors on the
\* stored position is (0, 0), whatever it was before, so the segment of a
\* G1 that follows starts at the origin.
C21_G28Homes ==
    (~ pre.line.empty /\ pre.line.cmd = "G28" /\ pre.isWork) =>
        /\ pc \in {"run", "done"}
        /\ <<_prevX, _prevY>> = <<0, 0>>

====
